---- MODULE Spec2Model ----
(***************************************************************************)
(* Model of the memoizing cache layer of the SKB visualization application *)
(* (src/src/utils/cache/): the MemoryCache and RedisCache backends, the    *)
(* CacheManager with its cached_computation wrapper, and the wall clock    *)
(* the backends read through time.time().                                  *)
(*                                                                         *)
(* Python dicts are modelled as sequences of records in insertion order    *)
(* (a dict keeps the position of a key that is assigned again, appends a   *)
(* new key, and closes the gap of a popped key).  Optional[int] is         *)
(* modelled as a sequence: << >> is None and <<n>> is the integer n.       *)
(* The Python value None is the string "None".                             *)
(***************************************************************************)
EXTENDS Integers, Sequences, FiniteSets, TLC

\* ------------------------------------------------------------------ bounds
\* the clock runs from 0 to MaxTime
MaxTime == 2
\* largest max_size a MemoryCache is constructed with
MaxMaxSize == 2
\* number of operations performed on one cache in one behaviour
MaxOps == 3
\* number of operations performed in one behaviour of an eviction scenario
MaxEvictOps == 5
\* number of wrapped calls made in one behaviour of a CacheManager
MaxCalls == 3
\* default_ttl the backends are constructed with (seconds, scaled)
DefaultTtl == 1
\* number of calls the threads sharing one MemoryCache make in one behaviour
MaxThreadOps == 2
\* number of initialize_cache, get_cache_manager and decorated calls in one
\* behaviour of a process
MaxRegistryOps == 3
MaxKeyOps == 5

\* --------------------------------------------------------------- the state
VARIABLES
    now,            \* the value time.time() returns
    max_size,       \* MemoryCache.max_size
    default_ttl,    \* MemoryCache.default_ttl / RedisCache.default_ttl
    _cache,         \* MemoryCache._cache: key -> {value, timestamp, ttl}
    _access_times,  \* MemoryCache._access_times: key -> float
    ops,            \* number of operations performed so far
    max_ops,        \* number of operations one behaviour performs
    last,           \* the most recent operation: its arguments and its outcome
    kind,           \* the class of CacheManager.backend: "memory" or "redis"
    _redis,         \* the remote store behind RedisCache.redis_client
    redis_up,       \* whether the remote store answers
    hit_count,      \* CacheManager.hit_count
    miss_count,     \* CacheManager.miss_count
    total_requests, \* CacheManager.total_requests
    called,         \* history: the wrapped functions called so far, each
                    \* with the argument lists it was called with
    disturbed,      \* history: an entry has been deleted, cleared, evicted
                    \* or has expired
    trace,          \* history: the operations so far, while they follow one
                    \* of the eviction scenarios
    pc,             \* per thread: the statement of MemoryCache it executes next
    frame,          \* per thread: the arguments and locals of its call
    failed,         \* per thread: the exception a call of it has raised
    cache_manager,  \* the global cache_manager of core.py: None or a manager
    stats,          \* what the most recent get_cache_stats returned
    bound           \* the manager a function decorated by cache.py holds

cfgVars == <<max_size, default_ttl, kind, max_ops>>
mgrVars == <<_redis, redis_up, hit_count, miss_count, total_requests, called>>
thrVars == <<pc, frame, failed>>
regVars == <<cache_manager, stats, bound>>
vars == <<now, _cache, _access_times, ops, last, disturbed, trace, cfgVars,
          mgrVars, thrVars, regVars>>

None == "None"
NoTtl == << >>

\* the keys, values and ttl arguments the backend operations are called with
Keys == {"K1", "K2", "K3"}
Values == {None, "v1"}
TtlArgs == {NoTtl, <<0>>, <<1>>, <<-1>>}

\* ------------------------------------------------------------ Python dicts
\* key in d
Has(d, k) == \E i \in 1..Len(d) : d[i].key = k
\* d[k]
Lookup(d, k) == d[CHOOSE i \in 1..Len(d) : d[i].key = k]
\* d.keys(), as a set
KeySet(d) == {d[i].key : i \in 1..Len(d)}
\* d[k] = e
Put(d, k, e) ==
    IF Has(d, k) THEN [i \in 1..Len(d) |-> IF d[i].key = k THEN e ELSE d[i]]
    ELSE Append(d, e)
\* d.pop(k, None)
Pop(d, k) == SelectSeq(d, LAMBDA e : e.key # k)

\* ------------------------------------------------------------- MemoryCache
\* a bug MemDelete could have: the access time of the key is left behind
MemDeleteEntryOnly(c, a, key) == [c |-> Pop(c, key), a |-> a]

\* MemoryCache.delete
MemDelete(c, a, key) == [c |-> Pop(c, key), a |-> Pop(a, key)]

\* a bug OldestKey could have: the entry inserted first is evicted, whatever
\* its access time
OldestKeyFifo(a) == a[1].key

\* min(self._access_times.keys(), key=lambda k: self._access_times[k]):
\* the first key, in iteration order, whose access time is the smallest
OldestKey(a) ==
    a[CHOOSE i \in 1..Len(a) :
        /\ \A j \in 1..Len(a) : a[i].t <= a[j].t
        /\ \A j \in 1..(i - 1) : a[j].t > a[i].t].key

\* a bug EvictIfNeeded could have: it evicts only above max_size
EvictIfAbove(c, a, max) ==
    IF Len(c) > max
    THEN [c |-> Pop(c, OldestKey(a)), a |-> Pop(a, OldestKey(a)),
          raised |-> "", victim |-> <<OldestKey(a)>>]
    ELSE [c |-> c, a |-> a, raised |-> "", victim |-> << >>]

\* MemoryCache._evict_if_needed; min() of an empty sequence raises ValueError
EvictIfNeeded(c, a, max) ==
    IF Len(c) >= max
    THEN IF Len(a) = 0
         THEN [c |-> c, a |-> a, raised |-> "ValueError", victim |-> << >>]
         ELSE [c |-> Pop(c, OldestKey(a)), a |-> Pop(a, OldestKey(a)),
               raised |-> "", victim |-> <<OldestKey(a)>>]
    ELSE [c |-> c, a |-> a, raised |-> "", victim |-> << >>]

\* MemoryCache._is_expired at clock reading t
IsExpired(item, t) ==
    IF item.ttl = NoTtl THEN FALSE ELSE t > item.timestamp + item.ttl[1]

\* ttl = ttl or self.default_ttl
TtlOrDefault(ttl, default) ==
    IF ttl = NoTtl \/ ttl = <<0>> THEN default ELSE ttl

\* a bug MemGet could have: a hit does not refresh the access time
MemGetNoTouch(c, a, key, t) ==
    IF ~Has(c, key) THEN [c |-> c, a |-> a, ret |-> None]
    ELSE LET item == Lookup(c, key) IN
         IF IsExpired(item, t)
         THEN [c |-> Pop(c, key), a |-> Pop(a, key), ret |-> None]
         ELSE [c |-> c, a |-> a, ret |-> item.value]

\* MemoryCache.get at clock reading t
MemGet(c, a, key, t) ==
    IF ~Has(c, key) THEN [c |-> c, a |-> a, ret |-> None]
    ELSE LET item == Lookup(c, key) IN
         IF IsExpired(item, t)
         THEN [c |-> Pop(c, key), a |-> Pop(a, key), ret |-> None]
         ELSE [c |-> c, a |-> Put(a, key, [key |-> key, t |-> t]),
               ret |-> item.value]

\* MemoryCache.set at clock reading t
MemSet(c, a, key, value, ttl, t, max, default) ==
    LET ev == EvictIfNeeded(c, a, max) IN
    IF ev.raised # "" THEN ev
    ELSE [c |-> Put(ev.c, key, [key |-> key, value |-> value, timestamp |-> t,
                                ttl |-> TtlOrDefault(ttl, default)]),
          a |-> Put(ev.a, key, [key |-> key, t |-> t]),
          raised |-> "", victim |-> ev.victim]

\* a bug MemExists could have: a live entry has its access time refreshed
MemExistsTouch(c, a, key, t) ==
    IF ~Has(c, key) THEN [c |-> c, a |-> a, ret |-> FALSE]
    ELSE IF IsExpired(Lookup(c, key), t)
         THEN [c |-> Pop(c, key), a |-> Pop(a, key), ret |-> FALSE]
         ELSE [c |-> c, a |-> Put(a, key, [key |-> key, t |-> t]), ret |-> TRUE]

\* MemoryCache.exists
MemExists(c, a, key, t) ==
    IF ~Has(c, key) THEN [c |-> c, a |-> a, ret |-> FALSE]
    ELSE IF IsExpired(Lookup(c, key), t)
         THEN [c |-> Pop(c, key), a |-> Pop(a, key), ret |-> FALSE]
         ELSE [c |-> c, a |-> a, ret |-> TRUE]

\* MemoryCache.size
MemSize(c) == Len(c)

\* the expired_keys list of MemoryCache.cleanup_expired, as a set
ExpiredKeys(c, t) == {c[i].key : i \in {j \in 1..Len(c) : IsExpired(c[j], t)}}

\* MemoryCache.cleanup_expired
MemCleanupExpired(c, a, t) ==
    [c |-> SelectSeq(c, LAMBDA e : e.key \notin ExpiredKeys(c, t)),
     a |-> SelectSeq(a, LAMBDA e : e.key \notin ExpiredKeys(c, t)),
     ret |-> Cardinality(ExpiredKeys(c, t))]

\* -------------------------------------------------------------- RedisCache
\* pickle.dumps and pickle.loads on the values of the model
PickleDumps(value) == <<"pickle", value>>
PickleLoads(data) == data[2]

\* a bug RedisGet could have: a failure of the client leaves get as an exception
RedisGetUnguarded(rs, up, key, t) ==
    IF ~up THEN [ret |-> None, raised |-> "ConnectionError"]
    ELSE IF Has(rs, key) /\ t < Lookup(rs, key).expires
         THEN [ret |-> PickleLoads(Lookup(rs, key).data), raised |-> ""]
         ELSE [ret |-> None, raised |-> ""]

\* RedisCache.get: a key of the remote store is gone once its time-to-live has
\* run out; a failure of the client is logged and turned into None
RedisGet(rs, up, key, t) ==
    IF ~up THEN [ret |-> None, raised |-> ""]
    ELSE IF Has(rs, key) /\ t < Lookup(rs, key).expires
         THEN [ret |-> PickleLoads(Lookup(rs, key).data), raised |-> ""]
         ELSE [ret |-> None, raised |-> ""]

\* RedisCache.set: setex refuses a time-to-live that is not positive; that and
\* a failure of the client are logged and swallowed
RedisSet(rs, up, key, value, ttl, default, t) ==
    LET tt == TtlOrDefault(ttl, default) IN
    IF ~up \/ tt[1] <= 0 THEN [rs |-> rs, raised |-> ""]
    ELSE [rs |-> Put(rs, key, [key |-> key, data |-> PickleDumps(value),
                               expires |-> t + tt[1]]),
          raised |-> ""]

\* RedisCache.clear
RedisClear(rs, up) == IF up THEN << >> ELSE rs

\* ------------------------------------------------------------ CacheManager
\* the arguments of the wrapped calls: Python scalars, lists and numpy arrays
PyInt(v) == [ty |-> "int", v |-> v]
PyFloat(v) == [ty |-> "float", v |-> v]
PyStr(v) == [ty |-> "str", v |-> v]
PyList(items) == [ty |-> "list", items |-> items]
NdArray(items) == [ty |-> "ndarray", items |-> items]
PyTuple(items) == [ty |-> "tuple", items |-> items]
\* a dict argument: entries is a sequence of [k, value], k and value Python
\* values
PyDict(entries) == [ty |-> "dict", entries |-> entries]

\* arg.tolist() if isinstance(arg, np.ndarray) else arg
ToSerializable(x) == IF x.ty = "ndarray" THEN PyList(x.items) ELSE x

\* str() of a one-dimensional numpy array of ints: the elements separated
\* by spaces, in brackets
RECURSIVE NpStrItems(_)
NpStrItems(xs) ==
    IF xs = << >> THEN ""
    ELSE IF Len(xs) = 1 THEN xs[1].v
    ELSE xs[1].v \o " " \o NpStrItems(Tail(xs))
NpStr(x) == "[" \o NpStrItems(x.items) \o "]"

\* the string keys of the dict arguments of the model, in the order
\* sort_keys=True puts them
DictNames == <<"a", "b">>
SortEntries(entries) ==
    SelectSeq(entries, LAMBDA e : e.k.v = DictNames[1])
        \o SelectSeq(entries, LAMBDA e : e.k.v = DictNames[2])

\* json.dumps of a value: numbers by their repr, strings quoted, lists and
\* tuples in brackets, dicts in braces with their keys sorted; a numpy array
\* inside a list or a dict is not JSON-serializable and goes through
\* default=str
RECURSIVE JsonValue(_), JsonItems(_), JsonEntries(_)
JsonValue(x) ==
    CASE x.ty = "int" -> x.v
      [] x.ty = "float" -> x.v
      [] x.ty = "str" -> "\"" \o x.v \o "\""
      [] x.ty = "list" -> "[" \o JsonItems(x.items) \o "]"
      [] x.ty = "tuple" -> "[" \o JsonItems(x.items) \o "]"
      [] x.ty = "ndarray" -> "\"" \o NpStr(x) \o "\""
      [] x.ty = "dict" -> "{" \o JsonEntries(SortEntries(x.entries)) \o "}"
JsonItems(xs) ==
    IF xs = << >> THEN ""
    ELSE IF Len(xs) = 1 THEN JsonValue(xs[1])
    ELSE JsonValue(xs[1]) \o ", " \o JsonItems(Tail(xs))
JsonEntries(es) ==
    IF es = << >> THEN ""
    ELSE LET p == "\"" \o es[1].k.v \o "\": " \o JsonValue(es[1].value) IN
         IF Len(es) = 1 THEN p ELSE p \o ", " \o JsonEntries(Tail(es))

\* json.dumps raises TypeError for a dict whose key is not a str, int, float,
\* bool or None (default=str is applied to values only, never to keys)
RECURSIVE JsonRaises(_)
JsonRaises(x) ==
    CASE x.ty \in {"int", "float", "str"} -> ""
      [] x.ty \in {"list", "tuple", "ndarray"} ->
            IF \E i \in 1..Len(x.items) : JsonRaises(x.items[i]) # ""
            THEN "TypeError" ELSE ""
      [] x.ty = "dict" ->
            IF \E i \in 1..Len(x.entries) :
                 \/ x.entries[i].k.ty \notin {"int", "float", "str"}
                 \/ JsonRaises(x.entries[i].value) # ""
            THEN "TypeError" ELSE ""

\* the exception generate_key raises on the arguments of a call, "" if none
KeyRaises(call) ==
    IF \/ \E i \in 1..Len(call.args) : JsonRaises(call.args[i]) # ""
       \/ \E i \in 1..Len(call.kwargs) : JsonRaises(call.kwargs[i].value) # ""
    THEN "TypeError" ELSE ""

\* the keyword names of the model, in the order sort_keys=True puts them
KwNames == <<"loop_factor", "time_param">>
SortKeys(kw) ==
    SelectSeq(kw, LAMBDA e : e.name = KwNames[1])
        \o SelectSeq(kw, LAMBDA e : e.name = KwNames[2])

RECURSIVE JsonPairs(_)
JsonPairs(kw) ==
    IF kw = << >> THEN ""
    ELSE LET p == "\"" \o kw[1].name \o "\": " \o JsonValue(kw[1].value) IN
         IF Len(kw) = 1 THEN p ELSE p \o ", " \o JsonPairs(Tail(kw))

\* json.dumps(cache_data, sort_keys=True, default=str)
JsonDumps(args, kwargs) ==
    "{\"args\": [" \o JsonItems(args) \o "], \"kwargs\": {"
        \o JsonPairs(SortKeys(kwargs)) \o "}}"

\* hashlib.md5(...).hexdigest(): one digest per string, no two strings of the
\* model share a digest
Md5(str) == "md5(" \o str \o ")"

\* CacheManager.generate_key
generate_key(prefix, args, kwargs) ==
    prefix \o ":" \o
    Md5(JsonDumps([i \in 1..Len(args) |-> ToSerializable(args[i])],
                  [i \in 1..Len(kwargs) |->
                      [name |-> kwargs[i].name,
                       value |-> ToSerializable(kwargs[i].value)]]))

\* the argument lists the wrapped functions are called with
Call1 == [args |-> <<PyInt("1")>>, kwargs |-> << >>]
Call2 == [args |-> <<NdArray(<<PyInt("1"), PyInt("2")>>)>>, kwargs |-> << >>]
Call3 == [args |-> << >>,
          kwargs |-> <<[name |-> "time_param", value |-> PyFloat("0.5")]>>]
CallArgs == {Call1, Call2, Call3}
\* an argument list json.dumps cannot encode: a dict with a tuple as key
Call4 == [args |-> <<PyDict(<<[k |-> PyTuple(<<PyInt("1"), PyInt("2")>>),
                              value |-> PyInt("3")]>>)>>,
          kwargs |-> << >>]

\* the pure functions that are wrapped: what func(*args, **kwargs) returns
\* or raises
Returns(value) == [exc |-> "", value |-> value]
Raises(exc) == [exc |-> exc, value |-> None]
Compute(func, call) ==
    CASE func = "f" /\ call = Call1 -> Returns("v1")
      [] func = "f" /\ call = Call2 -> Returns(None)
      [] func = "f" /\ call = Call3 -> Raises("ValueError")
      [] func = "g" /\ call = Call1 -> Returns("v2")
      [] func = "g" /\ call = Call2 -> Returns("v2")
      [] func = "g" /\ call = Call3 -> Returns("v1")
      [] func = "f" /\ call = Call4 -> Returns("v1")
      [] func = "g" /\ call = Call4 -> Returns("v2")
      [] func = "h" -> Raises("RuntimeError")

\* a bug RunFunc could have: an exception of func is swallowed and the call
\* goes on with None
RunFuncSwallowed(w, call) ==
    IF Compute(w.func, call).exc # "" THEN Returns(None)
    ELSE Compute(w.func, call)

\* result = func(*args, **kwargs)
RunFunc(w, call) == Compute(w.func, call)

\* the functions made by cached_computation(key_prefix, ttl, use_cache)(func):
\* two functions wrapped under one prefix, and one wrapped with use_cache off
WrappedF == [func |-> "f", key_prefix |-> "klein_bottle", ttl |-> NoTtl,
             use_cache |-> TRUE]
WrappedG == [func |-> "g", key_prefix |-> "klein_bottle", ttl |-> NoTtl,
             use_cache |-> TRUE]
WrappedOff == [func |-> "f", key_prefix |-> "klein_bottle", ttl |-> NoTtl,
               use_cache |-> FALSE]
Wrapped == {WrappedF, WrappedG, WrappedOff}
\* a function that raises RuntimeError, decorated with cached_torus()
WrappedH == [func |-> "h", key_prefix |-> "torus", ttl |-> NoTtl,
             use_cache |-> TRUE]

\* the mutable state a wrapped call works on
State == [c |-> _cache, a |-> _access_times, rs |-> _redis, up |-> redis_up,
          hit |-> hit_count, miss |-> miss_count, total |-> total_requests]

\* self.backend.get(cache_key)
BackendGet(st, key, t) ==
    IF kind = "memory"
    THEN LET r == MemGet(st.c, st.a, key, t) IN
         [st |-> [st EXCEPT !.c = r.c, !.a = r.a], ret |-> r.ret, raised |-> ""]
    ELSE LET r == RedisGet(st.rs, st.up, key, t) IN
         [st |-> st, ret |-> r.ret, raised |-> r.raised]

\* self.backend.set(cache_key, result, ttl)
BackendSet(st, key, value, ttl, t) ==
    IF kind = "memory"
    THEN LET r == MemSet(st.c, st.a, key, value, ttl, t, max_size, default_ttl) IN
         [st |-> [st EXCEPT !.c = r.c, !.a = r.a], raised |-> r.raised,
          victim |-> r.victim]
    ELSE LET r == RedisSet(st.rs, st.up, key, value, ttl, default_ttl, t) IN
         [st |-> [st EXCEPT !.rs = r.rs], raised |-> r.raised, victim |-> << >>]

\* a bug StoreResult could have: the set is not guarded, its exception leaves
\* the wrapper
StoreResultUnguarded(st, key, value, ttl, t) == BackendSet(st, key, value, ttl, t)

\* the try/except around self.backend.set: an exception is logged and dropped
StoreResult(st, key, value, ttl, t) ==
    [BackendSet(st, key, value, ttl, t) EXCEPT !.raised = ""]

\* the wrapper of CacheManager.cached_computation, called with the argument
\* list call; t1 is the clock reading of the get and t2 that of the set
Wrapper(w, call, st, t1, t2) ==
    LET st1 == [st EXCEPT !.total = @ + 1]
        out == RunFunc(w, call)
        key == IF KeyRaises(call) # "" THEN ""
               ELSE generate_key(w.key_prefix, call.args, call.kwargs)
        got == BackendGet(st1, key, t1)
        st2 == [got.st EXCEPT !.miss = @ + 1]
        put == StoreResult(st2, key, out.value, w.ttl, t2)
    IN
    IF ~w.use_cache
    THEN [st |-> st1, key |-> "", ret |-> out.value, raised |-> out.exc,
          executed |-> 1, evicted |-> << >>]
    ELSE IF KeyRaises(call) # ""
    THEN [st |-> st1, key |-> "", ret |-> None, raised |-> KeyRaises(call),
          executed |-> 0, evicted |-> << >>]
    ELSE IF got.raised # ""
    THEN [st |-> got.st, key |-> key, ret |-> None, raised |-> got.raised,
          executed |-> 0, evicted |-> << >>]
    ELSE IF got.ret # None
    THEN [st |-> [got.st EXCEPT !.hit = @ + 1], key |-> key, ret |-> got.ret,
          raised |-> "", executed |-> 0, evicted |-> << >>]
    ELSE IF out.exc # ""
    THEN [st |-> st2, key |-> key, ret |-> None, raised |-> out.exc,
          executed |-> 1, evicted |-> << >>]
    ELSE IF put.raised # ""
    THEN [st |-> put.st, key |-> key, ret |-> None, raised |-> put.raised,
          executed |-> 1, evicted |-> << >>]
    ELSE [st |-> put.st, key |-> key, ret |-> out.value, raised |-> "",
          executed |-> 1, evicted |-> put.victim]

\* -------------------------------------------------- the record of an operation
\* last holds the name of the most recent operation on the cache (the passing
\* of time and the failures of the remote store are not operations), its key
\* and what it returned (the value of a get or of a wrapped call, "True" or "False" of
\* an exists, the count of a cleanup_expired), the name of the
\* exception it raised, and for a wrapped call the function, its arguments
\* and the number of times the call executed the function
NoCall == [args |-> << >>, kwargs |-> << >>]
NoWrapped == [func |-> "", key_prefix |-> "", ttl |-> NoTtl, use_cache |-> FALSE]
NoOp == [op |-> "none", key |-> "", ret |-> "", raised |-> "", fn |-> NoWrapped,
         arg |-> NoCall, executed |-> 0, evicted |-> << >>]

Bool(b) == IF b THEN "True" ELSE "False"

\* history: this step removes a key from the memory cache or from the remote
\* store, evicts an entry, or leaves an entry that is past its time-to-live
Disturbs ==
    \/ ~(KeySet(_cache) \subseteq KeySet(_cache'))
    \/ last'.evicted # << >>
    \/ ~(KeySet(_redis) \subseteq KeySet(_redis'))
    \/ \E i \in 1..Len(_cache') : IsExpired(_cache'[i], now')
    \/ \E i \in 1..Len(_redis') : now' >= _redis'[i].expires

\* the eviction scenarios: K1..K4 inserted in order and none touched, and the
\* same with a get of K1 before K4 is inserted
ScenarioUntouched ==
    << <<"set", "K1">>, <<"set", "K2">>, <<"set", "K3">>, <<"set", "K4">> >>
ScenarioTouched ==
    << <<"set", "K1">>, <<"set", "K2">>, <<"set", "K3">>, <<"get", "K1">>,
       <<"set", "K4">> >>
Off == << <<"off", "">> >>
IsPrefix(s, t) == Len(s) <= Len(t) /\ \A i \in 1..Len(s) : s[i] = t[i]
Track(tr, l) ==
    LET n == Append(tr, <<l.op, l.key>>) IN
    IF IsPrefix(n, ScenarioUntouched) \/ IsPrefix(n, ScenarioTouched)
    THEN n ELSE Off

\* the history after an operation, and after a step that is no operation
History ==
    /\ disturbed' = (disturbed \/ Disturbs)
    /\ trace' = Track(trace, last')

Passing ==
    /\ UNCHANGED <<last, trace>>
    /\ disturbed' = (disturbed \/ Disturbs)

\* ------------------------------------------------ actions on a MemoryCache
Set(key, value, ttl) ==
    /\ ops < max_ops
    /\ LET r == MemSet(_cache, _access_times, key, value, ttl, now,
                       max_size, default_ttl) IN
         /\ _cache' = r.c
         /\ _access_times' = r.a
         /\ last' = [NoOp EXCEPT !.op = "set", !.key = key,
                                 !.raised = r.raised,
                                 !.evicted = r.victim]
    /\ ops' = ops + 1
    /\ UNCHANGED <<now, cfgVars, thrVars, regVars, mgrVars>>
    /\ History

Get(key) ==
    /\ ops < max_ops
    /\ LET r == MemGet(_cache, _access_times, key, now) IN
         /\ _cache' = r.c
         /\ _access_times' = r.a
         /\ last' = [NoOp EXCEPT !.op = "get", !.key = key, !.ret = r.ret]
    /\ ops' = ops + 1
    /\ UNCHANGED <<now, cfgVars, thrVars, regVars, mgrVars>>
    /\ History

Exists(key) ==
    /\ ops < max_ops
    /\ LET r == MemExists(_cache, _access_times, key, now) IN
         /\ _cache' = r.c
         /\ _access_times' = r.a
         /\ last' = [NoOp EXCEPT !.op = "exists", !.key = key,
                                 !.ret = Bool(r.ret)]
    /\ ops' = ops + 1
    /\ UNCHANGED <<now, cfgVars, thrVars, regVars, mgrVars>>
    /\ History

Delete(key) ==
    /\ ops < max_ops
    /\ LET r == MemDelete(_cache, _access_times, key) IN
         /\ _cache' = r.c
         /\ _access_times' = r.a
    /\ last' = [NoOp EXCEPT !.op = "delete", !.key = key]
    /\ ops' = ops + 1
    /\ UNCHANGED <<now, cfgVars, thrVars, regVars, mgrVars>>
    /\ History

\* MemoryCache.clear
Clear ==
    /\ ops < max_ops
    /\ _cache' = << >>
    /\ _access_times' = << >>
    /\ last' = [NoOp EXCEPT !.op = "clear"]
    /\ ops' = ops + 1
    /\ UNCHANGED <<now, cfgVars, thrVars, regVars, mgrVars>>
    /\ History

CleanupExpired ==
    /\ ops < max_ops
    /\ LET r == MemCleanupExpired(_cache, _access_times, now) IN
         /\ _cache' = r.c
         /\ _access_times' = r.a
         /\ last' = [NoOp EXCEPT !.op = "cleanup", !.ret = ToString(r.ret)]
    /\ ops' = ops + 1
    /\ UNCHANGED <<now, cfgVars, thrVars, regVars, mgrVars>>
    /\ History

\* a bug the backend could have: a background sweeper that removes the
\* expired entries as time passes
TickSweeps ==
    /\ now < MaxTime
    /\ now' = now + 1
    /\ _cache' = MemCleanupExpired(_cache, _access_times, now + 1).c
    /\ _access_times' = MemCleanupExpired(_cache, _access_times, now + 1).a
    /\ UNCHANGED <<ops, cfgVars, thrVars, regVars, mgrVars>>
    /\ Passing

\* time passes between two operations
Tick ==
    /\ now < MaxTime
    /\ now' = now + 1
    /\ UNCHANGED <<_cache, _access_times, ops, cfgVars, thrVars, regVars, mgrVars>>
    /\ Passing

\* the threads that share one cache, and a thread that is in no call
Threads == {"T1", "T2"}
NoItem == [key |-> "", value |-> "", timestamp |-> 0, ttl |-> NoTtl]
\* the locals of a call: the key, the item read, the key being deleted and
\* the label after the delete, the caller ("" or "wrapper"), the value to
\* store, the counter read by +=, and as history whether the call missed,
\* how often it ran the function and the rank of its store among the stores
NoFrame == [key |-> "", item |-> NoItem, del_key |-> "", after |-> "idle",
            caller |-> "", value |-> "", n |-> 0, missed |-> FALSE,
            executed |-> 0, order |-> 0]

\* the dict get_cache_stats returns; hit_rate is the quotient of the two
\* numbers of the pair
\* no function is decorated by cache.py yet.  A decorated function holds the
\* manager that was the global one at its decoration: current says that it
\* still is the global one, st and cfg are that manager's state and
\* configuration once it has been replaced
EmptyState == [c |-> << >>, a |-> << >>, rs |-> << >>, up |-> TRUE,
               hit |-> 0, miss |-> 0, total |-> 0]
NoBound == [bound |-> FALSE, current |-> FALSE, st |-> EmptyState,
            cfg |-> <<"", 0, << >> >>]
NoStats == [error |-> "", total_requests |-> 0, hits |-> 0, misses |-> 0,
            hit_rate |-> <<0, 1>>]

\* CacheManager.__init__ on a backend that is not used yet; the manager is
\* the global one
InitManager ==
    /\ _redis = << >>
    /\ redis_up = TRUE
    /\ hit_count = 0
    /\ miss_count = 0
    /\ total_requests = 0
    /\ called = {}
    /\ disturbed = FALSE
    /\ trace = << >>
    /\ pc = [t \in Threads |-> "idle"]
    /\ frame = [t \in Threads |-> NoFrame]
    /\ failed = [t \in Threads |-> ""]
    /\ cache_manager = "CacheManager"
    /\ stats = NoStats
    /\ bound = NoBound

\* MemoryCache.__init__ with max_size in 0..MaxMaxSize
InitBackend ==
    /\ now = 0
    /\ kind = "memory"
    /\ max_size \in 0..MaxMaxSize
    /\ max_ops = MaxOps
    /\ default_ttl = <<DefaultTtl>>
    /\ _cache = << >>
    /\ _access_times = << >>
    /\ ops = 0
    /\ last = NoOp
    /\ InitManager

NextBackend ==
    \/ \E key \in Keys, value \in Values, ttl \in TtlArgs : Set(key, value, ttl)
    \/ \E key \in Keys : Get(key)
    \/ \E key \in Keys : Exists(key)
    \/ \E key \in Keys : Delete(key)
    \/ Clear
    \/ CleanupExpired
    \/ Tick

\* a MemoryCache used directly by one thread
SpecBackend == InitBackend /\ [][NextBackend]_vars

\* a MemoryCache that is filled with up to four keys and read, every entry
\* with the default time-to-live; its max_size is smaller than the number of
\* keys
KeysEvict == {"K1", "K2", "K3", "K4"}

InitEvict ==
    /\ now = 0
    /\ kind = "memory"
    /\ max_size \in 1..(Cardinality(KeysEvict) - 1)
    /\ max_ops = MaxEvictOps
    /\ default_ttl = <<DefaultTtl>>
    /\ _cache = << >>
    /\ _access_times = << >>
    /\ ops = 0
    /\ last = NoOp
    /\ InitManager

NextEvict ==
    \/ \E key \in KeysEvict : Set(key, "v1", NoTtl)
    \/ \E key \in KeysEvict : Get(key)
    \/ Tick

SpecEvict == InitEvict /\ [][NextEvict]_vars

\* a MemoryCache of max_size >= 1 whose entries are set with two values and
\* with a time-to-live that lasts to the end of the clock, or the default one
LifeKeys == {"K1", "K2"}
LifeValues == {"v1", "v2"}
LifeTtls == {NoTtl, <<MaxTime>>}

InitLife ==
    /\ InitBackend
    /\ max_size >= 1

NextLife ==
    \/ \E key \in LifeKeys, value \in LifeValues, ttl \in LifeTtls :
          Set(key, value, ttl)
    \/ \E key \in LifeKeys : Get(key)
    \/ \E key \in LifeKeys : Exists(key)
    \/ \E key \in LifeKeys : Delete(key)
    \/ Clear
    \/ CleanupExpired
    \/ Tick

SpecLife == InitLife /\ [][NextLife]_vars

\* a MemoryCache of max_size 2 whose entries are set with the default
\* time-to-live or with one that outlasts the clock
SpareKeys == {"K1", "K2", "K3"}
SpareTtls == {NoTtl, <<MaxTime + 1>>}

InitSpare ==
    /\ InitBackend
    /\ max_size = 2

NextSpare ==
    \/ \E key \in SpareKeys, ttl \in SpareTtls : Set(key, "v1", ttl)
    \/ \E key \in SpareKeys : Get(key)
    \/ Tick

SpecSpare == InitSpare /\ [][NextSpare]_vars

\* ------------------------------------------- actions on a CacheManager
\* the clock readings a call that starts now can take when it stores its result
Readings == {t \in now..(now + 1) : t <= MaxTime}

\* a call of a wrapped function
Call(w, call) ==
    /\ ops < max_ops
    /\ \E t2 \in Readings :
         LET r == Wrapper(w, call, State, now, t2) IN
         /\ _cache' = r.st.c
         /\ _access_times' = r.st.a
         /\ _redis' = r.st.rs
         /\ hit_count' = r.st.hit
         /\ miss_count' = r.st.miss
         /\ total_requests' = r.st.total
         /\ now' = IF r.executed > 0 THEN t2 ELSE now
         /\ last' = [op |-> "call", key |-> r.key, ret |-> r.ret,
                     raised |-> r.raised, fn |-> w, arg |-> call,
                     executed |-> r.executed, evicted |-> r.evicted]
    /\ ops' = ops + 1
    /\ called' = called \cup {<<w, call>>}
    /\ UNCHANGED <<redis_up, cfgVars, thrVars, regVars>>
    /\ History

\* clear_cache: if cache_manager: cache_manager.backend.clear()
ClearCache ==
    /\ _cache' = IF cache_manager # None /\ kind = "memory" THEN << >>
                 ELSE _cache
    /\ _access_times' = IF cache_manager # None /\ kind = "memory" THEN << >>
                        ELSE _access_times
    /\ _redis' = IF cache_manager # None /\ kind = "redis"
                 THEN RedisClear(_redis, redis_up) ELSE _redis
    /\ last' = [NoOp EXCEPT !.op = "clear"]
    /\ UNCHANGED <<now, ops, redis_up, hit_count, miss_count, total_requests,
                   called, cfgVars, thrVars, regVars>>
    /\ History

\* the remote store stops answering, and answers again
RedisFail ==
    /\ kind = "redis"
    /\ redis_up
    /\ redis_up' = FALSE
    /\ UNCHANGED <<now, _cache, _access_times, ops, _redis, hit_count,
                   miss_count, total_requests, called, cfgVars, thrVars, regVars>>
    /\ Passing

RedisRecover ==
    /\ kind = "redis"
    /\ ~redis_up
    /\ redis_up' = TRUE
    /\ UNCHANGED <<now, _cache, _access_times, ops, _redis, hit_count,
                   miss_count, total_requests, called, cfgVars, thrVars, regVars>>
    /\ Passing

\* create_cache_manager: a MemoryCache of max_size in 0..MaxMaxSize, or a
\* RedisCache whose store answered the ping
Init ==
    /\ now = 0
    /\ \/ kind = "memory" /\ max_size \in 0..MaxMaxSize
       \/ kind = "redis" /\ max_size = 0
    /\ max_ops = MaxCalls
    /\ default_ttl = <<DefaultTtl>>
    /\ _cache = << >>
    /\ _access_times = << >>
    /\ ops = 0
    /\ last = NoOp
    /\ InitManager

Next ==
    \/ \E w \in Wrapped, call \in CallArgs : Call(w, call)
    \/ ClearCache
    \/ Tick
    \/ RedisFail
    \/ RedisRecover

\* a CacheManager whose wrapped functions are called by one thread
Spec == Init /\ [][Next]_vars

\* the same manager, called with an argument list that json.dumps encodes and
\* with one that it cannot encode
NextEncode ==
    \/ \E w \in {WrappedF, WrappedOff}, call \in {Call1, Call4} : Call(w, call)
    \/ Tick

SpecEncode == Init /\ [][NextEncode]_vars

\* ------------------------------------------- generate_key on argument shapes
\* argument lists of the shapes generate_key is given: scalars, a list, a
\* tuple and an array of the same elements, an array inside a list, the
\* string str() makes of that array, a dict in two insertion orders, a dict
\* of other values, and keyword arguments in two orders
Ints12 == <<PyInt("1"), PyInt("2")>>
DictAB == PyDict(<<[k |-> PyStr("a"), value |-> PyInt("1")],
                   [k |-> PyStr("b"), value |-> PyInt("2")]>>)
DictBA == PyDict(<<[k |-> PyStr("b"), value |-> PyInt("2")],
                   [k |-> PyStr("a"), value |-> PyInt("1")]>>)
DictSwapped == PyDict(<<[k |-> PyStr("a"), value |-> PyInt("2")],
                        [k |-> PyStr("b"), value |-> PyInt("1")]>>)
KwLoopTime == <<[name |-> "loop_factor", value |-> PyInt("1")],
                [name |-> "time_param", value |-> PyFloat("0.5")]>>
KwTimeLoop == <<[name |-> "time_param", value |-> PyFloat("0.5")],
                [name |-> "loop_factor", value |-> PyInt("1")]>>
Positional(x) == [args |-> <<x>>, kwargs |-> << >>]
KeyCalls ==
    {NoCall, Call1, Call3,
     Positional(PyFloat("1.0")), Positional(PyStr("1")),
     Positional(PyList(Ints12)), Positional(PyTuple(Ints12)),
     Positional(NdArray(Ints12)),
     Positional(PyList(<<NdArray(Ints12)>>)),
     Positional(PyList(<<PyStr("[1 2]")>>)),
     Positional(DictAB), Positional(DictBA), Positional(DictSwapped),
     [args |-> << >>, kwargs |-> KwLoopTime],
     [args |-> << >>, kwargs |-> KwTimeLoop],
     [args |-> <<PyInt("1")>>, kwargs |-> KwTimeLoop]}
KeyPrefixes == {"klein_bottle", "torus"}

\* manager.generate_key(prefix, *args, **kwargs) is called
GenerateKey(prefix, call) ==
    /\ ops < max_ops
    /\ ops' = ops + 1
    /\ last' = [NoOp EXCEPT
                  !.op = "generate_key",
                  !.key = generate_key(prefix, call.args, call.kwargs),
                  !.fn = [NoWrapped EXCEPT !.key_prefix = prefix],
                  !.arg = call]
    /\ UNCHANGED <<now, _cache, _access_times, disturbed, trace, cfgVars,
                   mgrVars, thrVars, regVars>>

\* a manager on an empty MemoryCache
InitKey ==
    /\ now = 0
    /\ kind = "memory"
    /\ max_size = MaxMaxSize
    /\ max_ops = MaxKeyOps
    /\ default_ttl = <<DefaultTtl>>
    /\ _cache = << >>
    /\ _access_times = << >>
    /\ ops = 0
    /\ last = NoOp
    /\ InitManager

NextKey == \E prefix \in KeyPrefixes, call \in KeyCalls : GenerateKey(prefix, call)

\* generate_key called on one argument list after another
SpecKey == InitKey /\ [][NextKey]_vars

\* --------------------------------- the global manager of core.py, decorators
\* a bug get_cache_manager could have: the manager is created on first use
GetCacheManagerLazy(cm) == [raised |-> "", cm |-> "CacheManager"]

\* get_cache_manager
get_cache_manager(cm) ==
    IF cm = None THEN [raised |-> "RuntimeError", cm |-> cm]
    ELSE [raised |-> "", cm |-> cm]

\* RedisCache.__init__: the ping of an endpoint that cannot be reached raises,
\* and the exception is raised again
RedisCacheInit(url, reachable) ==
    IF reachable THEN [raised |-> ""] ELSE [raised |-> "ConnectionError"]

\* the configurations initialize_cache is called with
Configs ==
    [backend : {"memory", "redis"}, url : {"", "redis://cache"},
     max_size : {0, MaxMaxSize}, ttl : {DefaultTtl, DefaultTtl + 1}]

\* a bug create_cache_manager could have: no fallback to a MemoryCache
CreateCacheManagerNoFallback(config, reachable) ==
    IF config.backend = "redis" /\ config.url # ""
    THEN [kind |-> "redis", max_size |-> 0, default_ttl |-> <<config.ttl>>,
          raised |-> RedisCacheInit(config.url, reachable).raised]
    ELSE [kind |-> "memory", max_size |-> config.max_size,
          default_ttl |-> <<config.ttl>>, raised |-> ""]

\* create_cache_manager: the backend it builds
create_cache_manager(config, reachable) ==
    IF /\ config.backend = "redis" /\ config.url # ""
       /\ RedisCacheInit(config.url, reachable).raised = ""
    THEN [kind |-> "redis", max_size |-> 0, default_ttl |-> <<config.ttl>>,
          raised |-> ""]
    ELSE [kind |-> "memory", max_size |-> config.max_size,
          default_ttl |-> <<config.ttl>>, raised |-> ""]

\* a bug get_stats could have: the hit rate as a percentage
GetStatsPercent(st) ==
    [error |-> "", total_requests |-> st.total, hits |-> st.hit,
     misses |-> st.miss,
     hit_rate |-> IF st.total = 0 THEN <<0, 1>> ELSE <<100 * st.hit, st.total>>]

\* CacheManager.get_stats
get_stats(st) ==
    [error |-> "", total_requests |-> st.total, hits |-> st.hit,
     misses |-> st.miss,
     hit_rate |-> IF st.total = 0 THEN <<0, 1>> ELSE <<st.hit, st.total>>]

\* the decoration step @cached_klein_bottle()(func) in the two revisions of
\* the decorators: decorators.py builds a wrapper and looks the manager up in
\* each call, cache.py looks the manager up at once
Revisions == {"decorators.py", "cache.py"}
Decoration(rev, cm) ==
    IF rev = "cache.py" THEN get_cache_manager(cm) ELSE [raised |-> "", cm |-> cm]

\* initialize_cache(config), the remote store answering or not
InitializeCache(config, reachable) ==
    /\ ops < max_ops
    /\ ops' = ops + 1
    /\ LET r == create_cache_manager(config, reachable) IN
       IF r.raised # ""
       THEN /\ last' = [NoOp EXCEPT !.op = "initialize_cache",
                                    !.key = config.backend,
                                    !.ret = config.url,
                                    !.raised = r.raised]
            /\ UNCHANGED <<cache_manager, kind, max_size, default_ttl, _cache,
                           _access_times, hit_count, miss_count,
                           total_requests, called, bound>>
       ELSE /\ last' = [NoOp EXCEPT !.op = "initialize_cache",
                                    !.key = config.backend,
                                    !.ret = config.url]
            /\ cache_manager' = "CacheManager"
            /\ kind' = r.kind
            /\ max_size' = r.max_size
            /\ default_ttl' = r.default_ttl
            /\ _cache' = << >>
            /\ _access_times' = << >>
            /\ hit_count' = 0
            /\ miss_count' = 0
            /\ total_requests' = 0
            /\ called' = {}
            /\ bound' = IF bound.bound /\ bound.current
                        THEN [bound EXCEPT
                                !.current = FALSE,
                                !.st = State,
                                !.cfg = <<kind, max_size, default_ttl>>]
                        ELSE bound
    /\ redis_up' = reachable
    /\ UNCHANGED <<now, _redis, max_ops, stats, thrVars>>
    /\ History

\* get_cache_manager()
GetCacheManager ==
    /\ ops < max_ops
    /\ ops' = ops + 1
    /\ cache_manager' = get_cache_manager(cache_manager).cm
    /\ last' = [NoOp EXCEPT !.op = "get_cache_manager",
                            !.raised = get_cache_manager(cache_manager).raised]
    /\ UNCHANGED <<now, _cache, _access_times, cfgVars, mgrVars, thrVars, stats,
                   bound>>
    /\ History

\* get_cache_stats()
GetCacheStats ==
    /\ stats' = IF cache_manager = None
                THEN [NoStats EXCEPT !.error = "Cache not initialized"]
                ELSE get_stats(State)
    /\ last' = [NoOp EXCEPT !.op = "get_cache_stats"]
    /\ UNCHANGED <<now, _cache, _access_times, ops, cfgVars, mgrVars, thrVars,
                   cache_manager, bound>>
    /\ History

\* the decoration step of a function, in one of the two revisions; the
\* first function cache.py decorates with a manager set is the one followed
Decorate(rev) ==
    /\ cache_manager' = Decoration(rev, cache_manager).cm
    /\ bound' = IF /\ rev = "cache.py"
                   /\ Decoration(rev, cache_manager).raised = ""
                   /\ ~bound.bound
                THEN [NoBound EXCEPT !.bound = TRUE, !.current = TRUE]
                ELSE bound
    /\ last' = [NoOp EXCEPT !.op = "decorate", !.key = rev,
                            !.raised = Decoration(rev, cache_manager).raised]
    /\ UNCHANGED <<now, _cache, _access_times, ops, cfgVars, mgrVars, thrVars,
                   stats>>
    /\ History

\* except RuntimeError: return func(*args, **kwargs), applied to the outcome r
\* of the call through cached_computation
CalledDirectly(w, call, r) ==
    IF r.raised = "RuntimeError"
    THEN [r EXCEPT !.ret = Compute(w.func, call).value,
                   !.raised = Compute(w.func, call).exc,
                   !.executed = @ + 1]
    ELSE r

\* what the wrapper of decorators.py does in a call: the manager is looked
\* up and the function is called through cached_computation; on a
\* RuntimeError from either, the function is called directly
Convenience(w, call, st, cm, t1, t2) ==
    IF get_cache_manager(cm).raised = "RuntimeError"
    THEN [st |-> st, key |-> "", ret |-> Compute(w.func, call).value,
          raised |-> Compute(w.func, call).exc, executed |-> 1,
          evicted |-> << >>]
    ELSE CalledDirectly(w, call, Wrapper(w, call, st, t1, t2))

\* a call of a function decorated with cached_klein_bottle() of decorators.py
ConvenienceCall(w, call) ==
    /\ ops < max_ops
    /\ \E t2 \in Readings :
         LET r == Convenience(w, call, State, cache_manager, now, t2) IN
         /\ _cache' = r.st.c
         /\ _access_times' = r.st.a
         /\ _redis' = r.st.rs
         /\ hit_count' = r.st.hit
         /\ miss_count' = r.st.miss
         /\ total_requests' = r.st.total
         /\ cache_manager' = get_cache_manager(cache_manager).cm
         /\ now' = IF r.executed > 0 THEN t2 ELSE now
         /\ last' = [op |-> "call", key |-> r.key, ret |-> r.ret,
                     raised |-> r.raised, fn |-> w, arg |-> call,
                     executed |-> r.executed, evicted |-> r.evicted]
    /\ ops' = ops + 1
    /\ called' = called \cup {<<w, call>>}
    /\ UNCHANGED <<redis_up, cfgVars, thrVars, stats, bound>>
    /\ History

\* a call of the function decorated by cache.py: the wrapper made by
\* cached_computation of the manager of the decoration, which is the global
\* manager or the one a later initialize_cache has replaced
LegacyCall(w, call) ==
    /\ ops < max_ops
    /\ bound.bound
    /\ bound.current \/ bound.cfg = <<kind, max_size, default_ttl>>
    /\ \E t2 \in Readings :
         LET r == Wrapper(w, call, IF bound.current THEN State ELSE bound.st,
                          now, t2)
             st == IF bound.current THEN r.st ELSE State
         IN
         /\ _cache' = st.c
         /\ _access_times' = st.a
         /\ _redis' = st.rs
         /\ hit_count' = st.hit
         /\ miss_count' = st.miss
         /\ total_requests' = st.total
         /\ bound' = IF bound.current THEN bound ELSE [bound EXCEPT !.st = r.st]
         /\ now' = IF r.executed > 0 THEN t2 ELSE now
         /\ last' = [op |-> "call", key |-> r.key, ret |-> r.ret,
                     raised |-> r.raised, fn |-> w, arg |-> call,
                     executed |-> r.executed, evicted |-> r.evicted]
    /\ ops' = ops + 1
    /\ called' = called \cup {<<w, call>>}
    /\ UNCHANGED <<redis_up, cfgVars, thrVars, stats, cache_manager>>
    /\ History

\* the process before initialize_cache: no manager, no backend
InitRegistry ==
    /\ now = 0
    /\ cache_manager = None
    /\ stats = NoStats
    /\ bound = NoBound
    /\ kind = ""
    /\ max_size = 0
    /\ max_ops = MaxRegistryOps
    /\ default_ttl = <<DefaultTtl>>
    /\ _cache = << >>
    /\ _access_times = << >>
    /\ _redis = << >>
    /\ redis_up = TRUE
    /\ hit_count = 0
    /\ miss_count = 0
    /\ total_requests = 0
    /\ called = {}
    /\ ops = 0
    /\ last = NoOp
    /\ disturbed = FALSE
    /\ trace = << >>
    /\ pc = [t \in Threads |-> "idle"]
    /\ frame = [t \in Threads |-> NoFrame]
    /\ failed = [t \in Threads |-> ""]

NextRegistry ==
    \/ \E config \in Configs, reachable \in BOOLEAN :
          InitializeCache(config, reachable)
    \/ GetCacheManager
    \/ GetCacheStats
    \/ \E rev \in Revisions : Decorate(rev)
    \/ \E call \in {Call1, Call3} : ConvenienceCall(WrappedF, call)
    \/ ConvenienceCall(WrappedH, Call1)
    \/ ClearCache
    \/ Tick

\* a process that uses the global manager and the decorated functions
SpecRegistry == InitRegistry /\ [][NextRegistry]_vars

\* a process that calls initialize_cache more than once, always for a
\* MemoryCache of the same configuration, and calls functions decorated by
\* decorators.py and by cache.py
ReinitConfig == [backend |-> "memory", url |-> "", max_size |-> MaxMaxSize,
                 ttl |-> DefaultTtl]

NextReinit ==
    \/ InitializeCache(ReinitConfig, TRUE)
    \/ \E rev \in Revisions : Decorate(rev)
    \/ ConvenienceCall(WrappedF, Call1)
    \/ LegacyCall(WrappedF, Call1)
    \/ GetCacheStats
    \/ ClearCache
    \/ Tick

SpecReinit == InitRegistry /\ [][NextReinit]_vars

\* --------------------------- threads sharing one MemoryCache, without a lock
\* One step of a thread is one statement of backends.py: a test, a read or a
\* write of one of the two dicts.  MemoryCache takes no lock, so the
\* statements of the threads interleave in any order.  min() over the access
\* times is taken as one step.
Goto(t, label) == pc' = [pc EXCEPT ![t] = label]
Fail(t, exc) ==
    /\ failed' = [failed EXCEPT ![t] = exc]
    /\ Goto(t, "idle")
ThreadLocal == <<now, ops, last, disturbed, trace, cfgVars, mgrVars, regVars>>
\* the label a method of the backend returns to: the caller's next statement
Back(t, label) == IF frame[t].caller = "wrapper" THEN label ELSE "idle"
\* the rank of the next store: one more than the rank of every store so far
NextOrder == 1 + CHOOSE n \in {frame[u].order : u \in Threads} :
                    \A u \in Threads : frame[u].order <= n

\* a thread enters get, set, delete or clear
ThreadCall(t, op, key) ==
    /\ pc[t] = "idle"
    /\ ops < max_ops
    /\ ops' = ops + 1
    /\ frame' = [frame EXCEPT ![t] = [NoFrame EXCEPT !.key = key,
                                                     !.del_key = key,
                                                     !.value = "v1"]]
    /\ Goto(t, CASE op = "get" -> "get_contains"
                 [] op = "set" -> "set_len"
                 [] op = "delete" -> "delete_cache"
                 [] op = "clear" -> "clear_cache")
    /\ UNCHANGED <<now, _cache, _access_times, last, disturbed, trace,
                   cfgVars, mgrVars, failed, regVars>>

\* get: if key not in self._cache: return None
GetContains(t) ==
    /\ pc[t] = "get_contains"
    /\ Goto(t, IF Has(_cache, frame[t].key) THEN "get_item"
               ELSE Back(t, "w_miss"))
    /\ UNCHANGED <<_cache, _access_times, frame, failed, ThreadLocal>>

\* get: item = self._cache[key], a KeyError when the key is gone
GetItem(t) ==
    /\ pc[t] = "get_item"
    /\ IF Has(_cache, frame[t].key)
       THEN /\ frame' = [frame EXCEPT
                           ![t].item = Lookup(_cache, frame[t].key)]
            /\ Goto(t, "get_expired")
            /\ UNCHANGED failed
       ELSE /\ Fail(t, "KeyError")
            /\ UNCHANGED frame
    /\ UNCHANGED <<_cache, _access_times, ThreadLocal>>

\* get: if self._is_expired(item): self.delete(key); return None
GetExpired(t) ==
    /\ pc[t] = "get_expired"
    /\ Goto(t, IF IsExpired(frame[t].item, now) THEN "delete_cache"
               ELSE "get_touch")
    /\ UNCHANGED <<_cache, _access_times, frame, failed, ThreadLocal>>

\* get: self._access_times[key] = time.time(); return item['value']
GetTouch(t) ==
    /\ pc[t] = "get_touch"
    /\ _access_times' = Put(_access_times, frame[t].key,
                            [key |-> frame[t].key, t |-> now])
    /\ Goto(t, Back(t, "w_test"))
    /\ UNCHANGED <<_cache, frame, failed, ThreadLocal>>

\* _evict_if_needed: if len(self._cache) >= self.max_size
SetLen(t) ==
    /\ pc[t] = "set_len"
    /\ Goto(t, IF Len(_cache) >= max_size THEN "set_min" ELSE "set_store")
    /\ UNCHANGED <<_cache, _access_times, frame, failed, ThreadLocal>>

\* _evict_if_needed: oldest_key = min(...), a ValueError when there is no
\* access time, which the wrapper's except around backend.set swallows; then
\* self.delete(oldest_key)
SetMin(t) ==
    /\ pc[t] = "set_min"
    /\ IF Len(_access_times) = 0
       THEN /\ IF frame[t].caller = "wrapper"
               THEN Goto(t, "idle") /\ UNCHANGED failed
               ELSE Fail(t, "ValueError")
            /\ UNCHANGED frame
       ELSE /\ frame' = [frame EXCEPT
                           ![t].del_key = OldestKey(_access_times),
                           ![t].after = "set_store"]
            /\ Goto(t, "delete_cache")
            /\ UNCHANGED failed
    /\ UNCHANGED <<_cache, _access_times, ThreadLocal>>

\* a bug set could have: the first value stored for a key is kept
SetStoreIfAbsent(t) ==
    /\ pc[t] = "set_store"
    /\ _cache' = IF Has(_cache, frame[t].key) THEN _cache
                 ELSE Put(_cache, frame[t].key,
                          [key |-> frame[t].key, value |-> frame[t].value,
                           timestamp |-> now,
                           ttl |-> TtlOrDefault(NoTtl, default_ttl)])
    /\ frame' = [frame EXCEPT ![t].order = NextOrder]
    /\ Goto(t, "set_touch")
    /\ UNCHANGED <<_access_times, failed, ThreadLocal>>

\* set: self._cache[key] = {'value', 'timestamp', 'ttl'}
SetStore(t) ==
    /\ pc[t] = "set_store"
    /\ _cache' = Put(_cache, frame[t].key,
                     [key |-> frame[t].key, value |-> frame[t].value,
                      timestamp |-> now,
                      ttl |-> TtlOrDefault(NoTtl, default_ttl)])
    /\ frame' = [frame EXCEPT ![t].order = NextOrder]
    /\ Goto(t, "set_touch")
    /\ UNCHANGED <<_access_times, failed, ThreadLocal>>

\* set: self._access_times[key] = time.time()
SetTouch(t) ==
    /\ pc[t] = "set_touch"
    /\ _access_times' = Put(_access_times, frame[t].key,
                            [key |-> frame[t].key, t |-> now])
    /\ Goto(t, "idle")
    /\ UNCHANGED <<_cache, frame, failed, ThreadLocal>>

\* delete: self._cache.pop(key, None)
DeletePopCache(t) ==
    /\ pc[t] = "delete_cache"
    /\ _cache' = Pop(_cache, frame[t].del_key)
    /\ Goto(t, "delete_times")
    /\ UNCHANGED <<_access_times, frame, failed, ThreadLocal>>

\* delete: self._access_times.pop(key, None), and back to the caller
DeletePopTimes(t) ==
    /\ pc[t] = "delete_times"
    /\ _access_times' = Pop(_access_times, frame[t].del_key)
    /\ Goto(t, frame[t].after)
    /\ UNCHANGED <<_cache, frame, failed, ThreadLocal>>

\* clear: self._cache.clear()
ClearEntries(t) ==
    /\ pc[t] = "clear_cache"
    /\ _cache' = << >>
    /\ Goto(t, "clear_times")
    /\ UNCHANGED <<_access_times, frame, failed, ThreadLocal>>

\* clear: self._access_times.clear()
ClearTimes(t) ==
    /\ pc[t] = "clear_times"
    /\ _access_times' = << >>
    /\ Goto(t, "idle")
    /\ UNCHANGED <<_cache, frame, failed, ThreadLocal>>

\* the cache after set(key, "v1") for each key of ks in turn, at time 0
RECURSIVE Filled(_, _, _)
Filled(ks, max, default) ==
    IF ks = << >> THEN [c |-> << >>, a |-> << >>]
    ELSE LET before == Filled(SubSeq(ks, 1, Len(ks) - 1), max, default) IN
         MemSet(before.c, before.a, ks[Len(ks)], "v1", NoTtl, 0, max, default)

ThreadKeys == {"K1", "K2"}

\* a MemoryCache of max_size in 1..MaxMaxSize that one thread has filled with
\* up to max_size entries
InitThreads ==
    /\ now = 0
    /\ kind = "memory"
    /\ max_size \in 1..MaxMaxSize
    /\ max_ops = MaxThreadOps
    /\ default_ttl = <<DefaultTtl>>
    /\ \E ks \in {<< >>, <<"K1">>, <<"K2">>, <<"K1", "K2">>, <<"K2", "K1">>} :
         /\ Len(ks) <= max_size
         /\ _cache = Filled(ks, max_size, default_ttl).c
         /\ _access_times = Filled(ks, max_size, default_ttl).a
    /\ ops = 0
    /\ last = NoOp
    /\ InitManager

NextThreads ==
    \/ \E t \in Threads, op \in {"get", "set", "delete", "clear"},
          key \in ThreadKeys : ThreadCall(t, op, key)
    \/ \E t \in Threads : GetContains(t)
    \/ \E t \in Threads : GetItem(t)
    \/ \E t \in Threads : GetExpired(t)
    \/ \E t \in Threads : GetTouch(t)
    \/ \E t \in Threads : SetLen(t)
    \/ \E t \in Threads : SetMin(t)
    \/ \E t \in Threads : SetStore(t)
    \/ \E t \in Threads : SetTouch(t)
    \/ \E t \in Threads : DeletePopCache(t)
    \/ \E t \in Threads : DeletePopTimes(t)
    \/ \E t \in Threads : ClearEntries(t)
    \/ \E t \in Threads : ClearTimes(t)
    \/ Tick

\* a MemoryCache used by two threads at once
SpecThreads == InitThreads /\ [][NextThreads]_vars

\* ------------------------- threads calling one wrapped function at once
\* One step of a wrapped call is one read or write of the manager or of the
\* backend; the statements on locals are taken with the next such step.
\* The wrapped function reads no shared state, and what it returns may
\* differ from one execution to the next.
RaceCalls == {Call1, Call2}
RaceResults == {"v1", "v2"}
WrapperLocal == <<now, last, disturbed, trace, cfgVars, _redis, redis_up,
                  called, regVars, _cache, _access_times, failed>>

\* wrapper: the call is entered and self.total_requests is read; each thread
\* makes one call
WrapperCall(t, call) ==
    /\ pc[t] = "idle"
    /\ frame[t].caller = ""
    /\ ops < max_ops
    /\ ops' = ops + 1
    /\ LET key == generate_key(WrappedF.key_prefix, call.args, call.kwargs) IN
       frame' = [frame EXCEPT ![t] = [NoFrame EXCEPT !.key = key,
                                                     !.del_key = key,
                                                     !.after = "w_miss",
                                                     !.caller = "wrapper",
                                                     !.n = total_requests]]
    /\ Goto(t, "w_total")
    /\ UNCHANGED <<hit_count, miss_count, total_requests, WrapperLocal>>

\* wrapper: self.total_requests += 1 is written; backend.get is entered
WrapperTotal(t) ==
    /\ pc[t] = "w_total"
    /\ total_requests' = frame[t].n + 1
    /\ Goto(t, "get_contains")
    /\ UNCHANGED <<ops, frame, hit_count, miss_count, WrapperLocal>>

\* wrapper: if cached_result is not None, and self.hit_count is read
WrapperTest(t) ==
    /\ pc[t] = "w_test"
    /\ IF frame[t].item.value # None
       THEN /\ frame' = [frame EXCEPT ![t].n = hit_count]
            /\ Goto(t, "w_hit")
       ELSE /\ UNCHANGED frame
            /\ Goto(t, "w_miss")
    /\ UNCHANGED <<ops, hit_count, miss_count, total_requests, WrapperLocal>>

\* wrapper: self.hit_count += 1 is written; return cached_result
WrapperHit(t) ==
    /\ pc[t] = "w_hit"
    /\ hit_count' = frame[t].n + 1
    /\ Goto(t, "idle")
    /\ UNCHANGED <<ops, frame, miss_count, total_requests, WrapperLocal>>

\* wrapper: self.miss_count is read
WrapperMiss(t) ==
    /\ pc[t] = "w_miss"
    /\ frame' = [frame EXCEPT ![t].n = miss_count]
    /\ Goto(t, "w_count")
    /\ UNCHANGED <<ops, hit_count, miss_count, total_requests, WrapperLocal>>

\* wrapper: self.miss_count += 1 is written; result = func(*args, **kwargs);
\* backend.set(cache_key, result, ttl) is entered
WrapperCount(t) ==
    /\ pc[t] = "w_count"
    /\ miss_count' = frame[t].n + 1
    /\ \E result \in RaceResults :
         frame' = [frame EXCEPT ![t].value = result,
                                ![t].missed = TRUE,
                                ![t].executed = @ + 1]
    /\ Goto(t, "set_len")
    /\ UNCHANGED <<ops, hit_count, total_requests, WrapperLocal>>

\* a MemoryCache of max_size in 1..MaxMaxSize that holds nothing or one entry
\* of another key, behind a manager
InitRace ==
    /\ now = 0
    /\ kind = "memory"
    /\ max_size \in 1..MaxMaxSize
    /\ max_ops = MaxThreadOps
    /\ default_ttl = <<DefaultTtl>>
    /\ \E ks \in {<< >>, <<"K1">>} :
         /\ _cache = Filled(ks, max_size, default_ttl).c
         /\ _access_times = Filled(ks, max_size, default_ttl).a
    /\ ops = 0
    /\ last = NoOp
    /\ InitManager

NextRace ==
    \/ \E t \in Threads, call \in RaceCalls : WrapperCall(t, call)
    \/ \E t \in Threads : WrapperTotal(t)
    \/ \E t \in Threads : GetContains(t)
    \/ \E t \in Threads : GetItem(t)
    \/ \E t \in Threads : GetExpired(t)
    \/ \E t \in Threads : GetTouch(t)
    \/ \E t \in Threads : WrapperTest(t)
    \/ \E t \in Threads : WrapperHit(t)
    \/ \E t \in Threads : WrapperMiss(t)
    \/ \E t \in Threads : WrapperCount(t)
    \/ \E t \in Threads : SetLen(t)
    \/ \E t \in Threads : SetMin(t)
    \/ \E t \in Threads : SetStore(t)
    \/ \E t \in Threads : SetTouch(t)
    \/ \E t \in Threads : DeletePopCache(t)
    \/ \E t \in Threads : DeletePopTimes(t)
    \/ Tick

\* one wrapped function called by two threads at once
SpecRace == InitRace /\ [][NextRace]_vars

\* ------------------------------------------------------------------ claims
\* the entry of key k in the memory cache, and its last access time
Entry(k) == Lookup(_cache, k)
AccessTime(k) == Lookup(_access_times, k).t

\* C4: on a MemoryCache with max_size >= 1 used by one thread, the number
\* of stored entries never exceeds max_size, in particular after every set.
SizeBound == max_size >= 1 => MemSize(_cache) <= max_size

\* a set on a full cache has just evicted an entry and stored its own
SizeBoundWitness ==
    /\ max_size = MaxMaxSize
    /\ last.op = "set"
    /\ last.evicted # << >>
    /\ Has(_cache, last.key)
    /\ MemSize(_cache) = max_size

\* the key this set must evict: it has the smallest access time, and every
\* key that has the same access time comes after it in iteration order
IsVictim(k) ==
    /\ Has(_access_times, k)
    /\ \A i \in 1..Len(_access_times) :
         LET e == _access_times[i] IN
         \/ e.key = k
         \/ AccessTime(k) < e.t
         \/ /\ AccessTime(k) = e.t
            /\ \E j \in 1..(i - 1) : _access_times[j].key = k

\* a set of a key that is not present, on a full cache
InsertsWhenFull(key) ==
    /\ \E value \in Values, ttl \in TtlArgs : Set(key, value, ttl)
    /\ ~Has(_cache, key)
    /\ MemSize(_cache) >= max_size

\* the general rule of C5: exactly one entry leaves, the least recently
\* accessed one (the first of them in iteration order), and the key enters
VictimRule ==
    \A key \in KeysEvict :
        InsertsWhenFull(key) =>
            \E v \in KeySet(_cache) :
                /\ IsVictim(v)
                /\ KeySet(_cache') = (KeySet(_cache) \ {v}) \cup {key}
                /\ MemSize(_cache') = MemSize(_cache)
                /\ last'.evicted = <<v>>

\* K1..K4 inserted in order into a cache of max_size 3, none touched
UntouchedExample ==
    (trace = ScenarioUntouched /\ max_size = 3) =>
        /\ MemSize(_cache) = 3
        /\ KeySet(_cache) = {"K2", "K3", "K4"}

\* the same with a get of K1 before K4 is inserted: K2 is the victim
TouchedExample ==
    (trace = ScenarioTouched /\ max_size = 3) =>
        /\ MemSize(_cache) = 3
        /\ KeySet(_cache) = {"K1", "K3", "K4"}

\* C5 as stated: the victim of a set that inserts a new key into a full
\* cache is the entry with the smallest lastAccessTimestamp (ties: the first
\* in iteration order); K1..K4 inserted untouched into a cache of max_size 3
\* leave K2, K3, K4; and a get of K1 before K4 is inserted makes K2 the victim.
EvictionVictimAsStated ==
    [][VictimRule /\ UntouchedExample' /\ TouchedExample']_vars

\* the get of K1 found K1 live and read a clock later than K2's last access
TouchedLater ==
    /\ Len(trace) = 4
    /\ last.op = "get" /\ last.key = "K1"
    /\ Has(_cache, "K1") /\ Has(_cache, "K2")
    /\ AccessTime("K1") > AccessTime("K2")

\* C5 amended: the rule and the untouched example as stated; the get of K1
\* makes K2 the victim when it finds K1 live at a clock reading later than
\* the last access of K2 (with an equal reading K1 is still the victim, and
\* an expired K1 is reaped by the get so that nothing is evicted).
EvictionVictim ==
    [][/\ VictimRule
       /\ UntouchedExample'
       /\ (TouchedLater /\ trace' = ScenarioTouched /\ max_size = 3) =>
             /\ MemSize(_cache') = 3
             /\ KeySet(_cache') = {"K1", "K3", "K4"}]_vars

\* K1, K2, K3 inserted, K1 read later, K4 inserted: K2 is gone
EvictionVictimWitness ==
    /\ trace = ScenarioTouched
    /\ max_size = 3
    /\ last.evicted = <<"K2">>
    /\ KeySet(_cache) = {"K1", "K3", "K4"}

\* C6 as stated: an entry is live iff now < storedAt + ttl: from the instant
\* storedAt + ttl on get returns None and exists returns False, and before
\* it get returns the value and exists returns True.
TtlLiveAsStated(item) == now < item.timestamp + item.ttl[1]

TtlLiveness ==
    [][\A key \in Keys :
        Has(_cache, key) =>
            /\ Get(key) =>
                 last'.ret = IF TtlLiveAsStated(Entry(key))
                             THEN Entry(key).value ELSE None
            /\ Exists(key) =>
                 last'.ret = Bool(TtlLiveAsStated(Entry(key)))]_vars

\* a step that is a call of a wrapped function, and what the function itself
\* returns or raises on the arguments of that call
CallStep == ops' = ops + 1 /\ last'.op = "call"
Direct(l) == Compute(l.fn.func, l.arg)

\* the memory backend can store at least one entry
Healthy == kind = "memory" /\ max_size >= 1

\* C1: on a cache where nothing is deleted, cleared, evicted or expired, a
\* call of a wrapped function (use_cache on) with arguments it was called
\* with before does not execute the function, whatever value the function
\* returns (None included), and returns what the previous identical call
\* returned.
IdempotentMemoization ==
    [][(/\ CallStep
        /\ Healthy
        /\ last'.fn.use_cache
        /\ Direct(last').exc = ""
        /\ <<last'.fn, last'.arg>> \in called
        /\ ~disturbed') =>
            /\ last'.executed = 0
            /\ (last.op = "call" /\ last.fn = last'.fn /\ last.arg = last'.arg)
                 => last'.ret = last.ret]_vars

\* C2: every call of a wrapped function returns (or raises) exactly what the
\* function itself returns (or raises) on the arguments, also when another
\* function is wrapped under the same prefix.
TransparentKey ==
    last.op = "call" =>
        /\ last.raised = Direct(last).exc
        /\ last.ret = Direct(last).value

\* C3: after N calls with M distinct argument lists to one memoized function
\* that returns on each of them, on a fresh manager and with nothing deleted,
\* cleared, evicted or expired: misses == M, hits == N - M, hits + misses == N
\* and total_requests == N.
StatsCorrect ==
    \A w \in {WrappedF, WrappedG} :
        (/\ Healthy
         /\ ~disturbed
         /\ called \subseteq {w} \X CallArgs
         /\ \A p \in called : Compute(p[1].func, p[2]).exc = "") =>
            /\ total_requests = ops
            /\ miss_count = Cardinality(called)
            /\ hit_count = ops - Cardinality(called)
            /\ hit_count + miss_count = ops

\* the key of a call has no entry after the step that it had not before
NothingStored(key) ==
    /\ \A i \in 1..Len(_cache') :
         _cache'[i].key = key => \E j \in 1..Len(_cache) : _cache[j] = _cache'[i]
    /\ \A i \in 1..Len(_redis') :
         _redis'[i].key = key => \E j \in 1..Len(_redis) : _redis[j] = _redis'[i]

SetRaises(l) ==
    LET key == generate_key(l.fn.key_prefix, l.arg.args, l.arg.kwargs)
        st == BackendGet(State, key, now).st
    IN \E t \in Readings :
         BackendSet(st, key, Direct(l).value, l.fn.ttl, t).raised # ""

\* C9: on a miss whose backend set raises, the call still returns the result
\* the function computed, raises nothing, and is counted as one miss.
StorageFailureSwallowed ==
    [][(/\ CallStep
        /\ last'.fn.use_cache
        /\ last'.executed > 0
        /\ Direct(last').exc = ""
        /\ SetRaises(last')) =>
            /\ last'.raised = ""
            /\ last'.ret = Direct(last').value
            /\ miss_count' = miss_count + 1
            /\ hit_count' = hit_count
            /\ total_requests' = total_requests + 1]_vars

\* a call on a MemoryCache of max_size 0, whose set raises ValueError, has
\* returned the computed value
StorageFailureWitness ==
    /\ kind = "memory" /\ max_size = 0
    /\ last.op = "call"
    /\ last.fn = WrappedF /\ last.arg = Call1
    /\ last.ret = "v1" /\ last.raised = ""
    /\ miss_count = 1
    /\ _cache = << >>

\* C10: while the remote store does not answer, every wrapped call executes
\* the function exactly once and returns or raises what the function does,
\* as if caching were off, and the store is left alone.
UnavailableCacheIsDisabled ==
    [][(CallStep /\ kind = "redis" /\ ~redis_up) =>
            /\ last'.executed = 1
            /\ last'.raised = Direct(last').exc
            /\ last'.ret = Direct(last').value
            /\ _redis' = _redis]_vars

\* the store holds the result of a call from before it failed, and the same
\* call has executed the function again
UnavailableCacheWitness ==
    /\ kind = "redis" /\ ~redis_up
    /\ last.op = "call"
    /\ last.fn = WrappedF /\ last.arg = Call1
    /\ Has(_redis, last.key)
    /\ last.executed = 1 /\ last.ret = "v1"
    /\ hit_count = 0 /\ miss_count = 2

\* C7: when two threads call get, set, delete and clear on one MemoryCache
\* with their statements interleaved, no call raises, and whenever no call
\* is in progress the cache holds at most max_size entries and the entries
\* and the access times have the same keys.
ThreadSafety ==
    /\ \A t \in Threads : failed[t] = ""
    /\ (\A t \in Threads : pc[t] = "idle") =>
         /\ MemSize(_cache) <= max_size
         /\ KeySet(_cache) = KeySet(_access_times)

\* the step leaves the memory cache and the remote store as they are
StoresUnchanged == UNCHANGED <<_cache, _access_times, _redis>>

\* C11: a wrapped call (use_cache on) whose arguments the key encoding fails
\* on executes the function once, returns or raises what the function does,
\* and stores nothing.
UnencodableFallsBack ==
    [][(CallStep /\ last'.fn.use_cache /\ KeyRaises(last'.arg) # "") =>
            /\ last'.executed = 1
            /\ last'.raised = Direct(last').exc
            /\ last'.ret = Direct(last').value
            /\ StoresUnchanged]_vars

\* C12: a call of a function wrapped with use_cache off executes the
\* function once, returns or raises what it does, generates no key, leaves
\* the backend alone and leaves total_requests, hit_count and miss_count
\* unchanged.
ForceRecompute ==
    [][(CallStep /\ ~last'.fn.use_cache) =>
            /\ last'.executed = 1
            /\ last'.raised = Direct(last').exc
            /\ last'.ret = Direct(last').value
            /\ last'.key = ""
            /\ StoresUnchanged
            /\ UNCHANGED <<total_requests, hit_count, miss_count>>]_vars

\* the step is an operation of the given name on the global manager
RegistryStep(op) == ops' = ops + 1 /\ last'.op = op

\* C13: while initialize_cache has not been called, get_cache_manager raises
\* the not-initialized RuntimeError, and no step other than initialize_cache
\* sets the global manager.
InitializeBeforeUse ==
    [][/\ (cache_manager = None /\ RegistryStep("get_cache_manager")) =>
            last'.raised = "RuntimeError"
       /\ (cache_manager = None /\ ~RegistryStep("initialize_cache")) =>
            cache_manager' = None]_vars

\* a decorated function has been called and get_cache_manager has raised,
\* with the manager still unset
InitializeBeforeUseWitness ==
    /\ cache_manager = None
    /\ called # {}
    /\ last.op = "get_cache_manager"
    /\ last.raised = "RuntimeError"

\* C14: while the global manager is unset, the decoration step of a
\* convenience decorator raises nothing, and a call of the decorated
\* function executes the function once, uncached, and returns or raises what
\* the function does.
GracefulDegradation ==
    [][/\ (cache_manager = None /\ last'.op = "decorate") =>
            last'.raised = ""
       /\ (cache_manager = None /\ CallStep) =>
            /\ last'.executed = 1
            /\ last'.raised = Direct(last').exc
            /\ last'.ret = Direct(last').value
            /\ StoresUnchanged]_vars

\* C15: initialize_cache with a redis configuration whose endpoint cannot be
\* reached raises nothing and leaves a manager on a MemoryCache with the
\* configured max_size and ttl, while RedisCache.__init__ on that endpoint
\* raises.
BackendFallback ==
    [][\A config \in Configs :
         (/\ config.backend = "redis" /\ config.url # ""
          /\ InitializeCache(config, FALSE)) =>
            /\ last'.raised = ""
            /\ cache_manager' = "CacheManager"
            /\ kind' = "memory"
            /\ max_size' = config.max_size
            /\ default_ttl' = <<config.ttl>>
            /\ MemSize(_cache') = 0
            /\ RedisCacheInit(config.url, FALSE).raised # ""]_vars

\* initialize_cache has been called for a redis endpoint that does not
\* answer, and the manager is on a MemoryCache with the configured values
BackendFallbackWitness ==
    /\ last.op = "initialize_cache"
    /\ last.key = "redis" /\ last.ret = "redis://cache"
    /\ ~redis_up
    /\ cache_manager = "CacheManager"
    /\ kind = "memory"
    /\ max_size = MaxMaxSize
    /\ default_ttl = <<DefaultTtl + 1>>

\* C17: no step on one manager (a decorated call, get_cache_stats,
\* clear_cache) decreases total_requests, hit_count or miss_count;
\* get_cache_stats and clear_cache leave them unchanged; and get_cache_stats
\* reports the counters and hit_rate = hits / total_requests, 0 when
\* total_requests is 0.
CounterMonotonic ==
    [][(cache_manager # None /\ ~RegistryStep("initialize_cache")) =>
            /\ total_requests' >= total_requests
            /\ hit_count' >= hit_count
            /\ miss_count' >= miss_count
            /\ last'.op \in {"get_cache_stats", "clear"} =>
                 UNCHANGED <<total_requests, hit_count, miss_count>>
            /\ last'.op = "get_cache_stats" =>
                 /\ stats'.error = ""
                 /\ stats'.total_requests = total_requests
                 /\ stats'.hits = hit_count
                 /\ stats'.misses = miss_count
                 /\ stats'.hit_rate[2] > 0
                 /\ stats'.hit_rate[1] * total_requests
                        = hit_count * stats'.hit_rate[2]
                 /\ total_requests = 0 => stats'.hit_rate[1] = 0]_vars

\* get_cache_stats has reported a hit and a miss
CounterMonotonicWitness ==
    /\ last.op = "get_cache_stats"
    /\ stats.hits = 1 /\ stats.misses = 1 /\ stats.total_requests = 2
    /\ stats.hit_rate = <<1, 2>>

\* C16: a set with ttl None, zero or negative that does not raise stores the
\* entry with the default_ttl of the backend: the entry has a time-to-live,
\* and it is not expired at the moment of the set.
TtlDefaulting ==
    [][\A key \in Keys, value \in Values, ttl \in {NoTtl, <<0>>, <<-1>>} :
         (Set(key, value, ttl) /\ last'.raised = "") =>
            /\ Has(_cache', key)
            /\ Lookup(_cache', key).ttl = default_ttl
            /\ Lookup(_cache', key).ttl # NoTtl
            /\ ~IsExpired(Lookup(_cache', key), now')]_vars

\* the step is an operation of the given name on the backend
BackendStep(op) == ops' = ops + 1 /\ last'.op = op

\* C19: a get of a key whose entry is live (now < storedAt + ttl) returns
\* the value of the most recent set of the key, makes now the access time of
\* the key and changes nothing else; a get of an absent key returns None and
\* changes nothing.  The value of an entry is the one of the most recent set:
\* a set stores its value, and no other step changes the value of an entry.
GetFrame ==
    [][\A key \in LifeKeys :
        /\ (Get(key) /\ Has(_cache, key) /\ TtlLiveAsStated(Entry(key))) =>
             /\ last'.ret = Entry(key).value
             /\ _cache' = _cache
             /\ KeySet(_access_times') = KeySet(_access_times) \cup {key}
             /\ Lookup(_access_times', key).t = now
             /\ \A k \in KeySet(_access_times) \ {key} :
                  Lookup(_access_times', k) = Lookup(_access_times, k)
             /\ UNCHANGED <<now, cfgVars, mgrVars>>
        /\ (Get(key) /\ ~Has(_cache, key)) =>
             /\ last'.ret = None
             /\ UNCHANGED <<_cache, _access_times, now, cfgVars, mgrVars>>
        /\ \A value \in LifeValues, ttl \in LifeTtls :
             (Set(key, value, ttl) /\ last'.raised = "") =>
                 Lookup(_cache', key).value = value
        /\ (/\ Has(_cache, key) /\ Has(_cache', key)
            /\ ~(BackendStep("set") /\ last'.key = key)) =>
                 Lookup(_cache', key) = Entry(key)]_vars

\* a get has returned the value of the second set of its key, later than
\* the set, and has made now the access time of the key, while the other
\* key keeps its access time
GetFrameWitness ==
    /\ last.op = "get" /\ last.key = "K1" /\ last.ret = "v2"
    /\ Has(_cache, "K1") /\ Has(_cache, "K2")
    /\ now > Entry("K1").timestamp
    /\ AccessTime("K1") = now
    /\ AccessTime("K2") < now

\* C20: a key leaves the entries of a MemoryCache only in a delete of that
\* key, a clear, a set at capacity that evicts it, or a get or exists of that
\* key or a cleanup_expired at or after the end of its time-to-live; the
\* passage of time changes neither dict.
EntryLifecycle ==
    [][/\ \A k \in KeySet(_cache) \ KeySet(_cache') :
            \/ BackendStep("delete") /\ last'.key = k
            \/ BackendStep("clear")
            \/ /\ BackendStep("set") /\ last'.evicted = <<k>>
               /\ MemSize(_cache) >= max_size
            \/ /\ BackendStep("get") \/ BackendStep("exists")
               /\ last'.key = k
               /\ ~TtlLiveAsStated(Entry(k))
            \/ BackendStep("cleanup") /\ ~TtlLiveAsStated(Entry(k))
       /\ now' # now => UNCHANGED <<_cache, _access_times>>]_vars

\* time has passed the end of the time-to-live of an entry that is still
\* stored, after a get and an exists of another key
EntryLifecycleWitness ==
    /\ last.op \in {"get", "exists"}
    /\ \E k \in KeySet(_cache) :
         /\ k # last.key
         /\ Entry(k).ttl # NoTtl
         /\ now > Entry(k).timestamp + Entry(k).ttl[1]

\* the wrapped call of thread t has returned after a miss, one execution of
\* the function and a store of its result
MissedAndStored(t) ==
    /\ pc[t] = "idle"
    /\ failed[t] = ""
    /\ frame[t].caller = "wrapper"
    /\ frame[t].missed
    /\ frame[t].executed = 1
    /\ frame[t].order > 0

\* C18: when two wrapped calls with the same arguments have both missed, both
\* executed the function and both stored their result, and both have
\* returned, the backend holds exactly one entry for the key and its value
\* is the result stored last.  (That such an interleaving exists is the
\* witness.)
NoSingleFlight ==
    \A t, u \in Threads :
        (/\ t # u
         /\ MissedAndStored(t) /\ MissedAndStored(u)
         /\ frame[t].key = frame[u].key
         /\ frame[t].order > frame[u].order) =>
            /\ Cardinality({i \in 1..Len(_cache) :
                              _cache[i].key = frame[t].key}) = 1
            /\ Entry(frame[t].key).value = frame[t].value

\* both calls ran at the same time, missed, executed the function with
\* different results and stored them; the entry holds the later result
NoSingleFlightWitness ==
    /\ now = 0
    /\ MissedAndStored("T1") /\ MissedAndStored("T2")
    /\ frame["T1"].key = frame["T2"].key
    /\ frame["T1"].value = "v1" /\ frame["T2"].value = "v2"
    /\ frame["T2"].order > frame["T1"].order
    /\ miss_count = 2
    /\ Entry(frame["T1"].key).value = "v2"

\* canonical equality of arguments: a list, a tuple and an array of the same
\* elements are the same sequence, and a mapping is its entries whatever
\* their insertion order
RECURSIVE Canon(_)
Canon(x) ==
    CASE x.ty \in {"int", "float", "str"} -> x
      [] x.ty \in {"list", "tuple", "ndarray"} ->
            PyList([i \in 1..Len(x.items) |-> Canon(x.items[i])])
      [] x.ty = "dict" ->
            LET es == SortEntries(x.entries) IN
            PyDict([i \in 1..Len(es) |->
                       [k |-> es[i].k, value |-> Canon(es[i].value)]])
CanonCall(call) ==
    [args |-> [i \in 1..Len(call.args) |-> Canon(call.args[i])],
     kwargs |-> LET kw == SortKeys(call.kwargs) IN
                [i \in 1..Len(kw) |->
                    [name |-> kw[i].name, value |-> Canon(kw[i].value)]]]
SameInput(l, m) ==
    /\ l.fn.key_prefix = m.fn.key_prefix
    /\ CanonCall(l.arg) = CanonCall(m.arg)

\* C21: two calls of generate_key return the same key when their prefix and
\* arguments are equal (whatever the insertion order of the keyword
\* arguments and of the keys of a mapping), and different keys when the
\* prefix or an argument value differs under canonical equality.
KeyDeterminism ==
    [][(last.op = "generate_key" /\ last'.op = "generate_key") =>
          (SameInput(last, last') <=> last'.key = last.key)]_vars

\* C22: a set of a key that is already present removes no other key and does
\* not lower the size, at size = max_size too; the entries and access times
\* of the other keys stay as they are.
OverwriteNeverEvicts ==
    [][\A key \in LifeKeys, value \in LifeValues, ttl \in LifeTtls :
         (Set(key, value, ttl) /\ Has(_cache, key)) =>
            /\ KeySet(_cache') = KeySet(_cache)
            /\ MemSize(_cache') >= MemSize(_cache)
            /\ \A k \in KeySet(_cache) \ {key} :
                 /\ Lookup(_cache', k) = Entry(k)
                 /\ Lookup(_access_times', k) = Lookup(_access_times, k)]_vars

\* C23: when the entry of a wrapped call is in the memory backend and its
\* time-to-live has run out (now >= storedAt + ttl), the next call with the
\* same arguments counts a miss and no hit and executes the function once;
\* when the function returns, a fresh entry is stored whose storedAt is the
\* time of that call, so that a call right after it is a hit.
RecomputeAfterExpiry ==
    [][\A w \in {WrappedF, WrappedG}, call \in CallArgs :
         LET key == generate_key(w.key_prefix, call.args, call.kwargs) IN
         (/\ Call(w, call)
          /\ Healthy
          /\ Has(_cache, key)
          /\ ~TtlLiveAsStated(Entry(key))) =>
             /\ miss_count' = miss_count + 1
             /\ hit_count' = hit_count
             /\ last'.executed = 1
             /\ last'.raised = "" =>
                  /\ Has(_cache', key)
                  /\ Lookup(_cache', key).timestamp = now'
                  /\ Lookup(_cache', key).timestamp >= now
                  /\ MemGet(_cache', _access_times', key, now').ret # None]_vars

\* the keys whose entry is at or past the end of its time-to-live
ExpiredAsStated == {k \in KeySet(_cache) : ~TtlLiveAsStated(Entry(k))}

\* C24: cleanup_expired removes exactly the entries that are expired at the
\* time of the call (now >= storedAt + ttl), from both dicts, and returns
\* their number; the live entries keep their value, storedAt, ttl and access
\* time; a second cleanup_expired at the same instant returns 0.
CleanupExact ==
    [][CleanupExpired =>
         /\ KeySet(_cache') = KeySet(_cache) \ ExpiredAsStated
         /\ KeySet(_access_times') = KeySet(_access_times) \ ExpiredAsStated
         /\ last'.ret = ToString(Cardinality(ExpiredAsStated))
         /\ \A k \in KeySet(_cache) \ ExpiredAsStated :
              /\ Lookup(_cache', k) = Entry(k)
              /\ Lookup(_access_times', k) = Lookup(_access_times, k)
         /\ MemCleanupExpired(_cache', _access_times', now').ret = 0]_vars

\* C25: on a MemoryCache used by one thread the entries dict and the access
\* time dict have the same keys after every operation.
MapAgreement == KeySet(_cache) = KeySet(_access_times)

\* a cleanup_expired has removed one entry and left another
MapAgreementWitness ==
    /\ last.op = "cleanup" /\ last.ret = "1"
    /\ KeySet(_cache) # {}
    /\ KeySet(_cache) = KeySet(_access_times)

\* C26: for every key and every stored value, None included, get reports
\* found (returns something other than None, the not-found result) iff
\* exists is true at the same instant.
GetExistsAgree ==
    [][\A key \in Keys :
         Get(key) =>
            ((last'.ret # None)
                <=> MemExists(_cache, _access_times, key, now).ret)]_vars

\* C27: a call of a function decorated by a convenience wrapper executes the
\* function at most once, with or without a manager, whether the function
\* returns or raises, RuntimeError included.
AtMostOneExecution ==
    [][CallStep => last'.executed <= 1]_vars

\* C28: a set of a new key at capacity removes no live entry
\* (now < storedAt + ttl) while the entries dict holds an entry that has
\* expired and is not reaped.
EvictionSparesLive ==
    [][\A key \in SpareKeys, ttl \in SpareTtls :
         (/\ Set(key, "v1", ttl)
          /\ ~Has(_cache, key)
          /\ MemSize(_cache) >= max_size
          /\ \E k \in KeySet(_cache) : IsExpired(Entry(k), now)) =>
             \A k \in KeySet(_cache) \ KeySet(_cache') :
                 ~TtlLiveAsStated(Entry(k))]_vars

\* C29: an initialize_cache on a process that has a manager leaves a manager
\* with zero counters and an empty backend; from then on a call of an
\* already decorated function is counted by the global manager and leaves
\* the replaced manager as it is, clear_cache empties the backend of the
\* global manager and get_cache_stats reports its counters.
ReinitSwitchesCallSites ==
    [][/\ (cache_manager # None /\ RegistryStep("initialize_cache")) =>
            /\ cache_manager' # None
            /\ hit_count' = 0 /\ miss_count' = 0 /\ total_requests' = 0
            /\ MemSize(_cache') = 0
       /\ (cache_manager # None /\ CallStep) =>
            /\ total_requests' = total_requests + 1
            /\ bound'.st = bound.st
       /\ (cache_manager # None /\ last'.op = "clear" /\ last.op # "clear") =>
            MemSize(_cache') = 0
       /\ (cache_manager # None /\ last'.op = "get_cache_stats") =>
            stats' = get_stats(State)]_vars

\* C30: exists of a key whose entry is live (now < storedAt + ttl) returns
\* True and changes no state, the access time of the key included, so the
\* entry the next set at capacity evicts is the same as before; exists of an
\* absent key returns False and changes no state.
ExistsReadOnly ==
    [][\A key \in LifeKeys :
        /\ (Exists(key) /\ Has(_cache, key) /\ TtlLiveAsStated(Entry(key))) =>
             /\ last'.ret = Bool(TRUE)
             /\ UNCHANGED <<_cache, _access_times, now, cfgVars, mgrVars>>
             /\ OldestKey(_access_times') = OldestKey(_access_times)
             /\ \A k \in LifeKeys \ {key} :
                  MemSet(_cache', _access_times', k, "v1", NoTtl, now',
                         max_size, default_ttl).victim
                    = MemSet(_cache, _access_times, k, "v1", NoTtl, now,
                             max_size, default_ttl).victim
        /\ (Exists(key) /\ ~Has(_cache, key)) =>
             /\ last'.ret = Bool(FALSE)
             /\ UNCHANGED <<_cache, _access_times, now, cfgVars,
                            mgrVars>>]_vars

\* exists has returned True for the entry accessed least recently, later
\* than its last access, on a full cache: that entry is still the one a set
\* evicts next
ExistsReadOnlyWitness ==
    /\ last.op = "exists" /\ last.key = "K1" /\ last.ret = Bool(TRUE)
    /\ Has(_cache, "K1") /\ Has(_cache, "K2")
    /\ MemSize(_cache) = max_size
    /\ AccessTime("K1") < now
    /\ AccessTime("K1") < AccessTime("K2")
    /\ OldestKey(_access_times) = "K1"

====
